---- MODULE Spec2Model ----
(***************************************************************************)
(* StudyMate front end: the DSA sheet (filter state, debounced preference  *)
(* sync, favourites toggle) and the resume upload component.               *)
(*                                                                         *)
(* DSASheet      src/src/components/dsa/RouteFilters.tsx, lines 174-250    *)
(* DSAFilters    src/unnamed/part_001                                      *)
(* ResumeUpload  src/unnamed/part_000                                      *)
(*                                                                         *)
(* One render of a component (state update, re-render, effect cleanup and  *)
(* effect) is one step.  A collaborator call is a record in an in-flight   *)
(* sequence from the moment it is issued until its promise settles; calls  *)
(* settle in any order.                                                    *)
(***************************************************************************)
EXTENDS Integers, Sequences, FiniteSets, TLC

(***************************************************************************)
(* Bounds of the model                                                     *)
(***************************************************************************)
MaxLoads == 2
MaxSaves == 2
MaxToggles == 2
MaxBurst == 3
MaxUploads == 2
MaxResets == 2

(***************************************************************************)
(* Program constants                                                       *)
(***************************************************************************)
DebounceMs == 1000
TickMs == 500

NoUser == "none"
Users == {"u1", "u2"}
Items == {"a"}

SheetDifficulties == {"Easy"}
SheetCategories == {}


(***************************************************************************)
(* Filter object and the DSAFilters handlers                               *)
(***************************************************************************)
DefaultFilter == [difficulty |-> <<>>, category |-> <<>>, companies |-> <<>>]

Includes(s, v) == \E i \in 1..Len(s) : s[i] = v

FilterOut(s, v) == SelectSeq(s, LAMBDA x : x # v)

\* Mutant: unchecking leaves the value in the list.
handleDifficultyChange_keep(f, difficulty, checked) ==
    [f EXCEPT !.difficulty = IF checked THEN Append(@, difficulty) ELSE @]

handleDifficultyChange(f, difficulty, checked) ==
    [f EXCEPT !.difficulty = IF checked THEN Append(@, difficulty)
                                        ELSE FilterOut(@, difficulty)]

\* Mutant: the new object is built without the difficulty of the old one.
handleCategoryChange_clearsDifficulty(f, category, checked) ==
    [f EXCEPT !.category = IF checked THEN Append(@, category)
                                      ELSE FilterOut(@, category),
              !.difficulty = <<>>]

handleCategoryChange(f, category, checked) ==
    [f EXCEPT !.category = IF checked THEN Append(@, category)
                                      ELSE FilterOut(@, category)]

handleCompanyChange(f, company, checked) ==
    [f EXCEPT !.companies = IF checked THEN Append(@, company)
                                       ELSE FilterOut(@, company)]

clearAllFilters(f) == [difficulty |-> <<>>, category |-> <<>>, companies |-> <<>>]

\* DSAFilters: the number in the badge next to "Filters"
badgeCount(f) == Len(f.difficulty) + Len(f.category) + Len(f.companies)

\* RouteFilters: its filters prop has the difficulty list only
RouteFilters_handleDifficultyChange(f, difficulty, checked) ==
    [f EXCEPT !.difficulty = IF checked THEN Append(@, difficulty)
                                        ELSE FilterOut(@, difficulty)]

RouteFilters_clearAllFilters(f) == [difficulty |-> <<>>]

RouteFilters_hasActiveFilters(f, show) == Len(f.difficulty) > 0 \/ show

RouteFilters_badgeCount(f, show) == Len(f.difficulty) + (IF show THEN 1 ELSE 0)

\* getFilters(userId) -> Filter | absent: the stored value is <<f>> or <<>>.
Absent == <<>>

Stored(f) == <<f>>

\* ResumeUpload: validTypes and the size limit of onDrop.
validTypes == {"application/pdf", "application/msword",
               "application/vnd.openxmlformats-officedocument.wordprocessingml.document"}

MaxFileSize == 5 * 1024 * 1024

\* acceptedFiles[0] is undefined, and currentFile is null
NoFile == [type |-> "", size |-> -1]

\* Files offered to onDrop
DropTypes == {"application/pdf", "application/msword", "image/png"}

SixMiB == 6 * 1024 * 1024

DropSizes == {MaxFileSize, MaxFileSize + 1, SixMiB}

DropFiles == [type : DropTypes, size : DropSizes] \cup {NoFile}

(***************************************************************************)
(* useDSAFilters: the catalog and the derivation of the filtered view      *)
(***************************************************************************)
\* Strings that are searched are sequences of one-character strings.
Lower(c) == IF c = "A" THEN "a" ELSE IF c = "B" THEN "b" ELSE c

toLowerCase(str) == [i \in 1..Len(str) |-> Lower(str[i])]

\* String.prototype.includes
includesStr(str, q) ==
    \E k \in 0..(Len(str) - Len(q)) : SubSeq(str, k + 1, k + Len(q)) = q

ViewDifficulties == {"Easy", "Hard"}

ViewCategories == {"inside", "outside"}

Titles == {<<"A", "b">>, <<"a">>}

\* Catalog entries: id, title, difficulty, category
Entries == [id : {"x", "y"}, title : Titles, difficulty : ViewDifficulties,
            category : ViewCategories]

MaxCatalog == 2

Catalogs == UNION {[1..n -> Entries] : n \in 0..MaxCatalog}

SampleCatalog ==
    << [id |-> "x", title |-> <<"A", "b">>, difficulty |-> "Easy",
        category |-> "inside"] >>

Queries == {<<>>, <<"B">>}

\* Mutant: the title is matched with its case.
matches_caseSensitive(entry, f, q) ==
    /\ Len(f.difficulty) = 0 \/ Includes(f.difficulty, entry.difficulty)
    /\ Len(f.category) = 0 \/ Includes(f.category, entry.category)
    /\ Len(f.companies) = 0 \/ Includes(f.companies, entry.id)
    /\ Len(q) = 0 \/ includesStr(entry.title, q)

\* Mutant: an empty difficulty selection selects nothing.
matches_emptyNone(entry, f, q) ==
    /\ Includes(f.difficulty, entry.difficulty)
    /\ Len(f.category) = 0 \/ Includes(f.category, entry.category)
    /\ Len(f.companies) = 0 \/ Includes(f.companies, entry.id)
    /\ Len(q) = 0 \/ includesStr(toLowerCase(entry.title), toLowerCase(q))

\* The predicate of the derivation
matches(entry, f, q) ==
    /\ Len(f.difficulty) = 0 \/ Includes(f.difficulty, entry.difficulty)
    /\ Len(f.category) = 0 \/ Includes(f.category, entry.category)
    /\ Len(f.companies) = 0 \/ Includes(f.companies, entry.id)
    /\ Len(q) = 0 \/ includesStr(toLowerCase(entry.title), toLowerCase(q))

\* Mutant: the first match is left out of the view.
filterEntries_skipFirst(entries, f, q) ==
    LET kept == SelectSeq(entries, LAMBDA entry : matches(entry, f, q))
    IN  IF kept = <<>> THEN kept ELSE Tail(kept)

\* topics.filter(...) / companies.filter(...)
filterEntries(entries, f, q) ==
    SelectSeq(entries, LAMBDA entry : matches(entry, f, q))

NoPair == [x |-> "none", base |-> <<>>, n |-> 0]

NoTimer == [left |-> -1, uid |-> NoUser, f |-> DefaultFilter]

(***************************************************************************)
(* Sequence helpers                                                        *)
(***************************************************************************)
RemoveAt(s, i) == SubSeq(s, 1, i - 1) \o SubSeq(s, i + 1, Len(s))

Range(s) == {s[i] : i \in 1..Len(s)}

NoDup(s) == \A i, j \in 1..Len(s) : s[i] = s[j] => i = j

Min(a, b) == IF a < b THEN a ELSE b

Max(a, b) == IF a > b THEN a ELSE b

VARIABLES
    mounted,       \* DSASheet is mounted
    user,          \* user?.id of the auth hook, or NoUser
    filters,       \* useDSAFilters: filters state
    favorites,     \* useState<string[]>([]) of DSASheet
    timer,         \* the debounce setTimeout of the save effect, with its closure
    loads,         \* in-flight loadUserPreferences invocations
    saves,         \* in-flight dsaService.saveFilters calls, in issue order
    toggles,       \* in-flight add/removeFromFavorites calls
    storeFilters,  \* persistence collaborator: stored filter per user
    storeFavs,     \* persistence collaborator: favourites set per user
    toast,         \* notification shown by the last step, or "none"
    logged,        \* console.error written by the last step, or "none"
    failed,        \* collaborator call whose failure the last step handled, or "none"
    dropped,       \* acceptedFiles[0] if the last step was onDrop, else NoFile
    elapsed,       \* ms since the last change of filters (capped at DebounceMs)
    burstN,        \* number of filter changes in the current burst
    burstW,        \* filter objects written since the burst began
    clean,         \* every call so far succeeded, writes applied in issue order
    pair,          \* the last toggles of one item: item, favourites before, count
    left,          \* <<filters>> a signed-in user had on leaving the loaded page
    currentFile,   \* ResumeUpload: useState<File | null>(null)
    isProcessing,  \* ResumeUpload: useState(false)
    uploadProgress,\* ResumeUpload: useState(0)
    currentResume, \* ResumeUpload: profile?.resumeData is present
    uploads,       \* accepted onDrop invocations: their call and their interval
    resetTimers,   \* pending 2000 ms timeouts armed after a successful upload
    catalog,       \* the static topic (or company) list handed to useDSAFilters
    searchQuery,   \* useDSAFilters: searchQuery state, a string of characters
    toggled,       \* itemId if the last step was handleToggleFavorite, else "none"
    touched,       \* the user has changed the filter controls since the mount
    routeFilters,  \* RouteFilters: the filters prop, { difficulty: string[] }
    showFavoritesOnly, \* RouteFilters: the showFavoritesOnly prop
    handler        \* the control handler the last step ran, or "none"

uploadVars == <<currentFile, isProcessing, uploadProgress, currentResume,
                uploads, resetTimers>>

viewVars == <<catalog, searchQuery>>

routeVars == <<routeFilters, showFavoritesOnly>>

vars == <<mounted, user, filters, favorites, timer, loads, saves, toggles,
          storeFilters, storeFavs, toast, logged, failed, dropped, elapsed,
          burstN, burstW,
          clean, left, pair,
          currentFile, isProcessing, uploadProgress, currentResume, uploads,
          resetTimers, catalog, searchQuery, toggled, touched,
          routeFilters, showFavoritesOnly, handler>>

(***************************************************************************)
(* Effects of DSASheet                                                     *)
(***************************************************************************)
\* Mutant: the mount effect starts the load twice.
loadUserPreferences_twice(u) ==
    IF u = NoUser THEN loads
    ELSE loads \o << [uid |-> u, stage |-> "getFilters", live |-> TRUE],
                     [uid |-> u, stage |-> "getFilters", live |-> TRUE] >>

\* useEffect(..., [user?.id, setFilters]): loadUserPreferences() is started;
\* it returns at once without a user, otherwise it awaits getFilters.
loadUserPreferences(u) ==
    IF u = NoUser THEN loads
    ELSE Append(loads, [uid |-> u, stage |-> "getFilters", live |-> TRUE])

\* Mutant: no cleanup, a timeout that is already armed is kept (throttle
\* instead of debounce).
saveEffect_keep(u, f) ==
    IF timer.left >= 0 THEN timer ELSE [left |-> DebounceMs, uid |-> u, f |-> f]

\* useEffect(..., [filters, user?.id]): the cleanup clears the previous
\* timeout and a new one is armed whose closure holds user?.id and filters.
saveEffect(u, f) == [left |-> DebounceMs, uid |-> u, f |-> f]

\* Mutant: the company selection does not count as an active filter.
hasActiveFilters_noCompanies(f) ==
    Len(f.difficulty) > 0 \/ Len(f.category) > 0

hasActiveFilters(f) ==
    Len(f.difficulty) > 0 \/ Len(f.category) > 0 \/ Len(f.companies) > 0

\* Filter objects the DSAFilters controls can hand to onFiltersChange: a
\* checkbox reports the negation of its checked prop, the Clear All button is
\* rendered only with active filters.
UIChanges(f) ==
    {handleDifficultyChange(f, d, ~Includes(f.difficulty, d)) : d \in SheetDifficulties}
    \cup {handleCategoryChange(f, c, ~Includes(f.category, c)) : c \in SheetCategories}
    \cup (IF hasActiveFilters(f) THEN {clearAllFilters(f)} ELSE {})

\* What a step shows: a toast, a console.error line
Out(t, l) ==
    /\ toast' = t
    /\ logged' = l
    /\ failed' = "none"
    /\ dropped' = NoFile
    /\ toggled' = "none"
    /\ handler' = "none"

\* What the catch block of a failed call shows
Caught(call, t, l) ==
    /\ toast' = t
    /\ logged' = l
    /\ failed' = call
    /\ dropped' = NoFile
    /\ toggled' = "none"
    /\ handler' = "none"

\* What handleToggleFavorite(itemId) shows up to its await
ToggleOut(itemId, t) ==
    /\ toast' = t
    /\ logged' = "none"
    /\ failed' = "none"
    /\ dropped' = NoFile
    /\ toggled' = itemId
    /\ handler' = "none"

\* Mutant: the failure of add/removeFromFavorites is swallowed.
toggleCatch_silent(call) == Caught(call, "none", "none")

\* catch (error) of loadUserPreferences
loadCatch(call) == Caught(call, "none", "Error loading user preferences:")

\* catch (error) of saveFilters
saveCatch == Caught("saveFilters", "none", "Error saving filters:")

\* catch (error) of handleToggleFavorite
toggleCatch(call) == Caught(call, "Error updating favorites", "none")

\* catch (error) of onDrop: console.error and the destructive toast
uploadCatch == Caught("uploadResume", "Processing failed", "Upload failed:")

\* Bookkeeping of bursts of filter changes for a signed-in user: a change that
\* follows the previous one by less than the quiet period continues the burst.
BurstChange ==
    /\ elapsed' = 0
    /\ IF user = NoUser
         THEN burstN' = 0 /\ burstW' = <<>>
         ELSE IF burstN > 0 /\ elapsed < DebounceMs
                THEN burstN' = Min(burstN + 1, MaxBurst) /\ UNCHANGED burstW
                ELSE burstN' = 1 /\ burstW' = <<>>

BurstReset == burstN' = 0 /\ burstW' = <<>>

Perms(S) == {s \in [1..Cardinality(S) -> S] : Range(s) = S}

(***************************************************************************)
(* Initial state: nothing mounted, nothing in flight; the store holds      *)
(* whatever earlier sessions left.                                         *)
(***************************************************************************)
StoredSample == [difficulty |-> <<"Easy">>, category |-> <<>>, companies |-> <<>>]

Init ==
    /\ mounted = FALSE
    /\ user \in Users \cup {NoUser}
    /\ filters = DefaultFilter
    /\ favorites = <<>>
    /\ timer = NoTimer
    /\ loads = <<>>
    /\ saves = <<>>
    /\ toggles = <<>>
    /\ storeFilters \in [Users -> {Absent, Stored(StoredSample)}]
    /\ storeFavs \in [Users -> {{}, {"a"}}]
    /\ toast = "none"
    /\ logged = "none"
    /\ failed = "none"
    /\ dropped = NoFile
    /\ elapsed = DebounceMs
    /\ burstN = 0
    /\ burstW = <<>>
    /\ clean = TRUE
    /\ left = <<>>
    /\ pair = NoPair
    /\ currentFile = NoFile
    /\ isProcessing = FALSE
    /\ uploadProgress = 0
    /\ currentResume \in BOOLEAN
    /\ uploads = <<>>
    /\ resetTimers = 0
    /\ catalog = SampleCatalog
    /\ searchQuery = <<>>
    /\ toggled = "none"
    /\ touched = FALSE
    /\ routeFilters = [difficulty |-> <<>>]
    /\ showFavoritesOnly = FALSE
    /\ handler = "none"

(***************************************************************************)
(* DSASheet                                                                *)
(***************************************************************************)
Mount ==
    /\ ~mounted
    /\ user = NoUser \/ Len(loads) < MaxLoads
    /\ mounted' = TRUE
    /\ filters' = DefaultFilter
    /\ favorites' = <<>>
    /\ loads' = loadUserPreferences(user)
    /\ timer' = saveEffect(user, DefaultFilter)
    /\ elapsed' = DebounceMs
    /\ BurstReset
    /\ Out("none", "none")
    /\ UNCHANGED <<user, saves, toggles, storeFilters, storeFavs>>
    /\ UNCHANGED uploadVars
    /\ UNCHANGED viewVars
    /\ UNCHANGED routeVars
    /\ touched' = FALSE
    /\ UNCHANGED <<clean, left>>
    /\ pair' = NoPair

\* Leaving the page: the effect cleanup clears the timeout, the component
\* state is dropped, and pending promises resolve into a dead instance.
Unmount ==
    /\ mounted
    /\ mounted' = FALSE
    /\ timer' = NoTimer
    /\ filters' = DefaultFilter
    /\ favorites' = <<>>
    /\ loads' = [i \in 1..Len(loads) |-> [loads[i] EXCEPT !.live = FALSE]]
    /\ toggles' = [i \in 1..Len(toggles) |-> [toggles[i] EXCEPT !.live = FALSE]]
    /\ elapsed' = DebounceMs
    /\ BurstReset
    /\ Out("none", "none")
    /\ UNCHANGED <<user, saves, storeFilters, storeFavs>>
    /\ UNCHANGED uploadVars
    /\ UNCHANGED viewVars
    /\ UNCHANGED routeVars
    /\ touched' = FALSE
    /\ left' = IF user = NoUser \/ \E i \in 1..Len(loads) :
                                       loads[i].live /\ loads[i].stage = "getFilters"
                 THEN <<>> ELSE <<filters>>
    /\ UNCHANGED clean
    /\ pair' = NoPair

\* The auth hook reports another user?.id (sign-in, sign-out, switch).
SetUser(u) ==
    /\ u # user
    /\ user' = u
    /\ IF mounted
         THEN /\ u = NoUser \/ Len(loads) < MaxLoads
              /\ loads' = loadUserPreferences(u)
              /\ timer' = saveEffect(u, filters)
         ELSE UNCHANGED <<loads, timer>>
    /\ BurstReset
    /\ Out("none", "none")
    /\ UNCHANGED <<mounted, filters, favorites, saves, toggles, storeFilters,
                   storeFavs, elapsed>>
    /\ UNCHANGED uploadVars
    /\ UNCHANGED viewVars
    /\ UNCHANGED routeVars
    /\ UNCHANGED touched
    /\ left' = <<>>
    /\ UNCHANGED clean
    /\ pair' = NoPair

\* Mutant: a filter change aborts the writes that are in flight.
FilterChange_abort(f) ==
    /\ mounted
    /\ f \in UIChanges(filters)
    /\ filters' = f
    /\ timer' = saveEffect(user, f)
    /\ BurstChange
    /\ Out("none", "none")
    /\ saves' = <<>>
    /\ left' = <<>>
    /\ UNCHANGED <<mounted, user, favorites, loads, toggles, storeFilters,
                   storeFavs, clean>>
    /\ UNCHANGED uploadVars
    /\ UNCHANGED viewVars
    /\ UNCHANGED routeVars
    /\ touched' = TRUE
    /\ UNCHANGED pair

\* onFiltersChange={setFilters}
FilterChange(f) ==
    /\ mounted
    /\ f \in UIChanges(filters)
    /\ filters' = f
    /\ timer' = saveEffect(user, f)
    /\ BurstChange
    /\ Out("none", "none")
    /\ UNCHANGED <<mounted, user, favorites, loads, saves, toggles, storeFilters,
                   storeFavs>>
    /\ UNCHANGED uploadVars
    /\ UNCHANGED viewVars
    /\ UNCHANGED routeVars
    /\ touched' = TRUE
    /\ left' = <<>>
    /\ UNCHANGED clean
    /\ UNCHANGED pair

\* TickMs of time pass; an expired timeout runs before time moves on.
Tick ==
    /\ timer # NoTimer \/ elapsed < DebounceMs
    /\ timer = NoTimer \/ timer.left > 0
    /\ timer' = IF timer = NoTimer THEN timer
                ELSE [timer EXCEPT !.left = Max(0, @ - TickMs)]
    /\ elapsed' = Min(elapsed + TickMs, DebounceMs)
    /\ Out("none", "none")
    /\ UNCHANGED <<mounted, user, filters, favorites, loads, saves, toggles,
                   storeFilters, storeFavs, burstN, burstW>>
    /\ UNCHANGED uploadVars
    /\ UNCHANGED viewVars
    /\ UNCHANGED routeVars
    /\ UNCHANGED touched
    /\ UNCHANGED <<clean, left>>
    /\ UNCHANGED pair

\* The timeout callback saveFilters() up to its await.
TimerFire ==
    /\ timer # NoTimer
    /\ timer.left = 0
    /\ timer' = NoTimer
    /\ IF timer.uid = NoUser
         THEN UNCHANGED <<saves, burstW>>
         ELSE /\ Len(saves) < MaxSaves
              /\ saves' = Append(saves, [uid |-> timer.uid, f |-> timer.f])
              /\ burstW' = IF burstN > 0 /\ Len(burstW) < 2
                             THEN Append(burstW, timer.f) ELSE burstW
    /\ Out("none", "none")
    /\ UNCHANGED <<mounted, user, filters, favorites, loads, toggles, storeFilters,
                   storeFavs, elapsed, burstN>>
    /\ UNCHANGED uploadVars
    /\ UNCHANGED viewVars
    /\ UNCHANGED routeVars
    /\ UNCHANGED touched
    /\ UNCHANGED <<clean, left>>
    /\ UNCHANGED pair

\* await dsaService.saveFilters(...) settles.
SaveReturn(i, ok) ==
    /\ i \in 1..Len(saves)
    /\ saves' = RemoveAt(saves, i)
    /\ IF ok
         THEN /\ storeFilters' = [storeFilters EXCEPT ![saves[i].uid] = Stored(saves[i].f)]
              /\ Out("none", "none")
         ELSE /\ UNCHANGED storeFilters
              /\ saveCatch
    /\ UNCHANGED <<mounted, user, filters, favorites, timer, loads, toggles,
                   storeFavs, elapsed, burstN, burstW>>
    /\ UNCHANGED uploadVars
    /\ UNCHANGED viewVars
    /\ UNCHANGED routeVars
    /\ UNCHANGED touched
    /\ clean' = (clean /\ ok /\ i = 1)
    /\ UNCHANGED left
    /\ UNCHANGED pair

\* Mutant: a failed getFilters is caught on its own and getFavorites follows.
GetFiltersReturn_continue(i, ok) ==
    /\ i \in 1..Len(loads)
    /\ loads[i].stage = "getFilters"
    /\ IF ok
         THEN /\ loads' = [loads EXCEPT ![i].stage = "getFavorites"]
              /\ Out("none", "none")
              /\ IF storeFilters[loads[i].uid] # Absent /\ loads[i].live
                   THEN /\ filters' = storeFilters[loads[i].uid][1]
                        /\ timer' = saveEffect(user, storeFilters[loads[i].uid][1])
                        /\ BurstChange
                   ELSE UNCHANGED <<filters, timer, elapsed, burstN, burstW>>
         ELSE /\ loads' = [loads EXCEPT ![i].stage = "getFavorites"]
              /\ loadCatch("getFilters")
              /\ UNCHANGED <<filters, timer, elapsed, burstN, burstW>>
    /\ UNCHANGED <<mounted, user, favorites, saves, toggles, storeFilters, storeFavs>>
    /\ UNCHANGED uploadVars
    /\ UNCHANGED viewVars
    /\ UNCHANGED routeVars
    /\ UNCHANGED touched
    /\ clean' = (clean /\ ok)
    /\ UNCHANGED left
    /\ UNCHANGED pair

\* await dsaService.getFilters(user.id) settles.
GetFiltersReturn(i, ok) ==
    /\ i \in 1..Len(loads)
    /\ loads[i].stage = "getFilters"
    /\ IF ok
         THEN /\ loads' = [loads EXCEPT ![i].stage = "getFavorites"]
              /\ Out("none", "none")
              /\ IF storeFilters[loads[i].uid] # Absent /\ loads[i].live
                   THEN /\ filters' = storeFilters[loads[i].uid][1]
                        /\ timer' = saveEffect(user, storeFilters[loads[i].uid][1])
                        /\ BurstChange
                   ELSE UNCHANGED <<filters, timer, elapsed, burstN, burstW>>
         ELSE /\ loads' = RemoveAt(loads, i)
              /\ loadCatch("getFilters")
              /\ UNCHANGED <<filters, timer, elapsed, burstN, burstW>>
    /\ UNCHANGED <<mounted, user, favorites, saves, toggles, storeFilters, storeFavs>>
    /\ UNCHANGED uploadVars
    /\ UNCHANGED viewVars
    /\ UNCHANGED routeVars
    /\ UNCHANGED touched
    /\ clean' = (clean /\ ok)
    /\ UNCHANGED left
    /\ UNCHANGED pair

\* await dsaService.getFavorites(user.id) settles.
GetFavoritesReturn(i, ok) ==
    /\ i \in 1..Len(loads)
    /\ loads[i].stage = "getFavorites"
    /\ loads' = RemoveAt(loads, i)
    /\ IF ok
         THEN /\ Out("none", "none")
              /\ IF loads[i].live
                   THEN favorites' \in Perms(storeFavs[loads[i].uid])
                   ELSE UNCHANGED favorites
         ELSE /\ loadCatch("getFavorites")
              /\ UNCHANGED favorites
    /\ UNCHANGED <<mounted, user, filters, timer, saves, toggles, storeFilters,
                   storeFavs, elapsed, burstN, burstW>>
    /\ UNCHANGED uploadVars
    /\ UNCHANGED viewVars
    /\ UNCHANGED routeVars
    /\ UNCHANGED touched
    /\ clean' = (clean /\ ok)
    /\ UNCHANGED left
    /\ pair' = IF ok /\ loads[i].live THEN NoPair ELSE pair

\* Mutant: the local list is updated before the call is awaited.
handleToggleFavorite_optimistic(itemId) ==
    /\ mounted
    /\ user # NoUser
    /\ Len(toggles) < MaxToggles
    /\ toggles' = Append(toggles,
          [uid |-> user, item |-> itemId, live |-> TRUE,
           op |-> IF Includes(favorites, itemId) THEN "remove" ELSE "add"])
    /\ favorites' = IF Includes(favorites, itemId) THEN FilterOut(favorites, itemId)
                                                   ELSE Append(favorites, itemId)
    /\ ToggleOut(itemId, "none")
    /\ pair' = NoPair
    /\ UNCHANGED <<mounted, user, filters, timer, loads, saves,
                   storeFilters, storeFavs, elapsed, burstN, burstW, clean, left>>
    /\ UNCHANGED uploadVars
    /\ UNCHANGED viewVars
    /\ UNCHANGED routeVars
    /\ UNCHANGED touched

\* Mutant: the check of the signed-in user is missing.
handleToggleFavorite_noGuard(itemId) ==
    /\ mounted
    /\ IF FALSE
         THEN /\ ToggleOut(itemId, "Please sign in to add favorites")
              /\ UNCHANGED toggles
         ELSE /\ Len(toggles) < MaxToggles
              /\ toggles' = Append(toggles,
                    [uid |-> user, item |-> itemId, live |-> TRUE,
                     op |-> IF Includes(favorites, itemId) THEN "remove" ELSE "add"])
              /\ ToggleOut(itemId, "none")
    /\ UNCHANGED <<mounted, user, filters, favorites, timer, loads, saves,
                   storeFilters, storeFavs, elapsed, burstN, burstW>>
    /\ UNCHANGED uploadVars
    /\ UNCHANGED viewVars
    /\ UNCHANGED routeVars
    /\ UNCHANGED touched
    /\ UNCHANGED <<clean, left>>
    /\ pair' = IF user = NoUser THEN NoPair
               ELSE IF pair.n = 1 /\ pair.x = itemId THEN [pair EXCEPT !.n = 2]
               ELSE IF toggles = <<>>
                      THEN [x |-> itemId, base |-> favorites, n |-> 1]
                      ELSE NoPair

\* handleToggleFavorite(itemId) up to its await.
handleToggleFavorite(itemId) ==
    /\ mounted
    /\ IF user = NoUser
         THEN /\ ToggleOut(itemId, "Please sign in to add favorites")
              /\ UNCHANGED toggles
         ELSE /\ Len(toggles) < MaxToggles
              /\ toggles' = Append(toggles,
                    [uid |-> user, item |-> itemId, live |-> TRUE,
                     op |-> IF Includes(favorites, itemId) THEN "remove" ELSE "add"])
              /\ ToggleOut(itemId, "none")
    /\ UNCHANGED <<mounted, user, filters, favorites, timer, loads, saves,
                   storeFilters, storeFavs, elapsed, burstN, burstW>>
    /\ UNCHANGED uploadVars
    /\ UNCHANGED viewVars
    /\ UNCHANGED routeVars
    /\ UNCHANGED touched
    /\ UNCHANGED <<clean, left>>
    /\ pair' = IF user = NoUser THEN NoPair
               ELSE IF pair.n = 1 /\ pair.x = itemId THEN [pair EXCEPT !.n = 2]
               ELSE IF toggles = <<>>
                      THEN [x |-> itemId, base |-> favorites, n |-> 1]
                      ELSE NoPair

\* Mutant: the local list is updated although the call failed.
ToggleReturn_applyOnFail(i, ok) ==
    /\ i \in 1..Len(toggles)
    /\ toggles' = RemoveAt(toggles, i)
    /\ IF ok
         THEN /\ storeFavs' = [storeFavs EXCEPT ![toggles[i].uid] =
                    IF toggles[i].op = "add" THEN @ \cup {toggles[i].item}
                                             ELSE @ \ {toggles[i].item}]
              /\ favorites' =
                    IF ~toggles[i].live THEN favorites
                    ELSE IF toggles[i].op = "add"
                           THEN Append(favorites, toggles[i].item)
                           ELSE FilterOut(favorites, toggles[i].item)
              /\ Out(IF toggles[i].op = "add" THEN "Added to favorites"
                                              ELSE "Removed from favorites", "none")
         ELSE /\ UNCHANGED storeFavs
              /\ favorites' =
                    IF ~toggles[i].live THEN favorites
                    ELSE IF toggles[i].op = "add"
                           THEN Append(favorites, toggles[i].item)
                           ELSE FilterOut(favorites, toggles[i].item)
              /\ toggleCatch(IF toggles[i].op = "add" THEN "addToFavorites"
                                                        ELSE "removeFromFavorites")
    /\ UNCHANGED <<mounted, user, filters, timer, loads, saves, storeFilters,
                   elapsed, burstN, burstW>>
    /\ UNCHANGED uploadVars
    /\ UNCHANGED viewVars
    /\ UNCHANGED routeVars
    /\ UNCHANGED touched
    /\ clean' = (clean /\ ok)
    /\ UNCHANGED left
    /\ UNCHANGED pair

\* await dsaService.addToFavorites / removeFromFavorites settles.
ToggleReturn(i, ok) ==
    /\ i \in 1..Len(toggles)
    /\ toggles' = RemoveAt(toggles, i)
    /\ IF ok
         THEN /\ storeFavs' = [storeFavs EXCEPT ![toggles[i].uid] =
                    IF toggles[i].op = "add" THEN @ \cup {toggles[i].item}
                                             ELSE @ \ {toggles[i].item}]
              /\ favorites' =
                    IF ~toggles[i].live THEN favorites
                    ELSE IF toggles[i].op = "add"
                           THEN Append(favorites, toggles[i].item)
                           ELSE FilterOut(favorites, toggles[i].item)
              /\ Out(IF toggles[i].op = "add" THEN "Added to favorites"
                                              ELSE "Removed from favorites", "none")
         ELSE /\ UNCHANGED <<storeFavs, favorites>>
              /\ toggleCatch(IF toggles[i].op = "add" THEN "addToFavorites"
                                                        ELSE "removeFromFavorites")
    /\ UNCHANGED <<mounted, user, filters, timer, loads, saves, storeFilters,
                   elapsed, burstN, burstW>>
    /\ UNCHANGED uploadVars
    /\ UNCHANGED viewVars
    /\ UNCHANGED routeVars
    /\ UNCHANGED touched
    /\ clean' = (clean /\ ok)
    /\ UNCHANGED left
    /\ UNCHANGED pair

(***************************************************************************)
(* ResumeUpload                                                            *)
(***************************************************************************)
sheetState == <<mounted, filters, favorites, timer, loads, saves, toggles,
                storeFilters, storeFavs, elapsed, burstN, burstW, left, pair,
               touched>>

\* The dropzone of the upload card is rendered without a resume and without
\* a current file; the "Upload New Resume" dropzone with a resume.
DropzoneShown == currentResume \/ currentFile = NoFile

\* Mutant: the MIME type is not validated.
onDropVerdict_noType(file, u) ==
    IF file = NoFile \/ u = NoUser THEN "return"
    ELSE IF file.size > MaxFileSize THEN "File too large"
    ELSE "upload"

\* Mutant: the size is not validated.
onDropVerdict_noSize(file, u) ==
    IF file = NoFile \/ u = NoUser THEN "return"
    ELSE IF file.type \notin validTypes THEN "Invalid file type"
    ELSE "upload"

\* Mutant: the size is validated before the MIME type.
onDropVerdict_sizeFirst(file, u) ==
    IF file = NoFile \/ u = NoUser THEN "return"
    ELSE IF file.size > MaxFileSize THEN "File too large"
    ELSE IF file.type \notin validTypes THEN "Invalid file type"
    ELSE "upload"

\* Mutant: a file of exactly the size limit is rejected.
onDropVerdict_strictSize(file, u) ==
    IF file = NoFile \/ u = NoUser THEN "return"
    ELSE IF file.type \notin validTypes THEN "Invalid file type"
    ELSE IF file.size >= MaxFileSize THEN "File too large"
    ELSE "upload"

\* The early returns of onDrop: "return" without a file or a user, the title
\* of the destructive toast of a failed validation, "upload" otherwise.
onDropVerdict(file, u) ==
    IF file = NoFile \/ u = NoUser THEN "return"
    ELSE IF file.type \notin validTypes THEN "Invalid file type"
    ELSE IF file.size > MaxFileSize THEN "File too large"
    ELSE "upload"

\* onDrop(acceptedFiles) up to its await, file = acceptedFiles[0]
onDrop(file) ==
    /\ DropzoneShown
    /\ dropped' = file
    /\ toggled' = "none"
    /\ handler' = "none"
    /\ logged' = "none"
    /\ failed' = "none"
    /\ IF onDropVerdict(file, user) = "return"
         THEN /\ toast' = "none"
              /\ UNCHANGED uploadVars
         ELSE IF onDropVerdict(file, user) # "upload"
         THEN /\ toast' = onDropVerdict(file, user)
              /\ UNCHANGED uploadVars
         ELSE /\ Len(uploads) < MaxUploads
              /\ currentFile' = file
              /\ isProcessing' = TRUE
              /\ uploadProgress' = 0
              /\ uploads' = Append(uploads,
                               [file |-> file, pending |-> TRUE, ticking |-> TRUE])
              /\ toast' = "none"
              /\ UNCHANGED <<currentResume, resetTimers>>
    /\ UNCHANGED <<user, sheetState>>
    /\ UNCHANGED viewVars
    /\ UNCHANGED routeVars
    /\ UNCHANGED clean

\* Drops the record of an onDrop invocation once its call has settled and its
\* interval is cleared.
Settle(us) == SelectSeq(us, LAMBDA r : r.pending \/ r.ticking)

\* One 300 ms tick of the progressInterval of invocation i.
ProgressTick(i) ==
    /\ i \in 1..Len(uploads)
    /\ uploads[i].ticking
    /\ IF uploadProgress >= 90
         THEN /\ uploads' = Settle([uploads EXCEPT ![i].ticking = FALSE])
              /\ uploadProgress' = 90
         ELSE /\ uploadProgress' = uploadProgress + 15
              /\ UNCHANGED uploads
    /\ Out("none", "none")
    /\ UNCHANGED <<currentFile, isProcessing, currentResume, resetTimers>>
    /\ UNCHANGED <<user, sheetState>>
    /\ UNCHANGED viewVars
    /\ UNCHANGED routeVars
    /\ UNCHANGED clean

\* await uploadResume(file) settles.
UploadReturn(i, ok) ==
    /\ i \in 1..Len(uploads)
    /\ uploads[i].pending
    /\ IF ok
         THEN /\ resetTimers < MaxResets
              /\ uploads' = Settle([uploads EXCEPT ![i].pending = FALSE,
                                                   ![i].ticking = FALSE])
              /\ uploadProgress' = 100
              /\ resetTimers' = resetTimers + 1
              /\ currentResume' = TRUE
              /\ Out("Resume processed successfully", "none")
              /\ UNCHANGED <<currentFile, isProcessing>>
         ELSE /\ uploads' = Settle([uploads EXCEPT ![i].pending = FALSE])
              /\ uploadProgress' = 0
              /\ currentFile' = NoFile
              /\ isProcessing' = FALSE
              /\ uploadCatch
              /\ UNCHANGED <<currentResume, resetTimers>>
    /\ UNCHANGED <<user, sheetState>>
    /\ UNCHANGED viewVars
    /\ UNCHANGED routeVars
    /\ clean' = (clean /\ ok)

\* The 2000 ms timeout armed after a successful upload.
ResetFire ==
    /\ resetTimers > 0
    /\ resetTimers' = resetTimers - 1
    /\ uploadProgress' = 0
    /\ isProcessing' = FALSE
    /\ Out("none", "none")
    /\ UNCHANGED <<currentFile, currentResume, uploads>>
    /\ UNCHANGED <<user, sheetState>>
    /\ UNCHANGED viewVars
    /\ UNCHANGED routeVars
    /\ UNCHANGED clean

\* DocumentPreview onRemove
onRemove ==
    /\ currentFile # NoFile
    /\ ~currentResume
    /\ currentFile' = NoFile
    /\ uploadProgress' = 0
    /\ isProcessing' = FALSE
    /\ Out("none", "none")
    /\ UNCHANGED <<currentResume, uploads, resetTimers>>
    /\ UNCHANGED <<user, sheetState>>
    /\ UNCHANGED viewVars
    /\ UNCHANGED routeVars
    /\ UNCHANGED clean

(***************************************************************************)
(* The controls of DSAFilters and of RouteFilters                          *)
(***************************************************************************)
ControlDifficulties == {"Easy", "Medium", "Hard"}

ControlCategories == {"inside", "outside"}

AvailableCompanies == {"x"}

\* A control handler shows nothing
HandlerOut(by) ==
    /\ toast' = "none"
    /\ logged' = "none"
    /\ failed' = "none"
    /\ dropped' = NoFile
    /\ toggled' = "none"
    /\ handler' = by

\* onFiltersChange={setFilters}, called by the handler `by`: the new filter
\* object becomes the state and the save effect runs again.
setFilters(f, by) ==
    /\ mounted
    /\ filters' = f
    /\ timer' = saveEffect(user, f)
    /\ BurstChange
    /\ HandlerOut(by)
    /\ UNCHANGED <<mounted, user, favorites, loads, saves, toggles, storeFilters,
                   storeFavs>>
    /\ UNCHANGED uploadVars
    /\ UNCHANGED viewVars
    /\ UNCHANGED routeVars
    /\ touched' = TRUE
    /\ left' = <<>>
    /\ UNCHANGED clean
    /\ UNCHANGED pair

\* A difficulty checkbox reports the negation of its checked prop; the X of a
\* badge, shown for a selected value, reports false.
DifficultyChange(d, checked) ==
    /\ checked = ~Includes(filters.difficulty, d)
    /\ setFilters(handleDifficultyChange(filters, d, checked), "handleDifficultyChange")

CategoryChange(c, checked) ==
    /\ checked = ~Includes(filters.category, c)
    /\ setFilters(handleCategoryChange(filters, c, checked), "handleCategoryChange")

CompanyChange(c, checked) ==
    /\ checked = ~Includes(filters.companies, c)
    /\ setFilters(handleCompanyChange(filters, c, checked), "handleCompanyChange")

\* The Clear All button is rendered with active filters only.
ClearAll ==
    /\ hasActiveFilters(filters)
    /\ setFilters(clearAllFilters(filters), "clearAllFilters")

\* RouteFilters: the owner of the props takes what the callbacks hand it.
RouteProps(f, show, by) ==
    /\ routeFilters' = f
    /\ showFavoritesOnly' = show
    /\ HandlerOut(by)
    /\ UNCHANGED <<user, sheetState, clean>>
    /\ UNCHANGED uploadVars
    /\ UNCHANGED viewVars

RouteDifficultyChange(d, checked) ==
    /\ checked = ~Includes(routeFilters.difficulty, d)
    /\ RouteProps(RouteFilters_handleDifficultyChange(routeFilters, d, checked),
                  showFavoritesOnly, "RouteFilters.handleDifficultyChange")

\* The favourites checkbox, and the X of its badge
onShowFavoritesChange(show) ==
    /\ show = ~showFavoritesOnly
    /\ RouteProps(routeFilters, show, "onShowFavoritesChange")

RouteClearAll ==
    /\ RouteFilters_hasActiveFilters(routeFilters, showFavoritesOnly)
    /\ RouteProps(RouteFilters_clearAllFilters(routeFilters), FALSE,
                  "RouteFilters.clearAllFilters")

\* The search box: onChange={(e) => setSearchQuery(e.target.value)}
setSearchQuery(q) ==
    /\ mounted
    /\ searchQuery' = q
    /\ Out("none", "none")
    /\ UNCHANGED <<user, sheetState, catalog, clean>>
    /\ UNCHANGED uploadVars
    /\ UNCHANGED routeVars

\* useDSAFilters: the derived view of the catalog
filteredTopics == filterEntries(catalog, filters, searchQuery)

Next ==
    \/ Mount
    \/ Unmount
    \/ \E u \in Users \cup {NoUser} : SetUser(u)
    \/ \E f \in UIChanges(filters) : FilterChange(f)
    \/ \E q \in Queries : setSearchQuery(q)
    \/ \E d \in ControlDifficulties, checked \in BOOLEAN : DifficultyChange(d, checked)
    \/ \E c \in ControlCategories, checked \in BOOLEAN : CategoryChange(c, checked)
    \/ \E c \in AvailableCompanies, checked \in BOOLEAN : CompanyChange(c, checked)
    \/ ClearAll
    \/ \E d \in ControlDifficulties, checked \in BOOLEAN :
          RouteDifficultyChange(d, checked)
    \/ \E show \in BOOLEAN : onShowFavoritesChange(show)
    \/ RouteClearAll
    \/ Tick
    \/ TimerFire
    \/ \E i \in 1..MaxSaves, ok \in BOOLEAN : SaveReturn(i, ok)
    \/ \E i \in 1..MaxLoads, ok \in BOOLEAN : GetFiltersReturn(i, ok)
    \/ \E i \in 1..MaxLoads, ok \in BOOLEAN : GetFavoritesReturn(i, ok)
    \/ \E x \in Items : handleToggleFavorite(x)
    \/ \E i \in 1..MaxToggles, ok \in BOOLEAN : ToggleReturn(i, ok)
    \/ \E file \in DropFiles : onDrop(file)
    \/ \E i \in 1..MaxUploads : ProgressTick(i)
    \/ \E i \in 1..MaxUploads, ok \in BOOLEAN : UploadReturn(i, ok)
    \/ ResetFire
    \/ onRemove

Spec == Init /\ [][Next]_vars

(***************************************************************************)
(* Preference sync alone: the filter state, the debounce timer, the load   *)
(* on mount and the saveFilters writes.                                    *)
(***************************************************************************)
SyncUsers == {"u1"}

InitSync ==
    /\ Init
    /\ currentResume = FALSE
    /\ user \in SyncUsers \cup {NoUser}
    /\ storeFavs = [u \in Users |-> {}]
    /\ \A u \in Users \ SyncUsers : storeFilters[u] = Absent

NextSync ==
    \/ Mount
    \/ Unmount
    \/ \E u \in SyncUsers \cup {NoUser} : SetUser(u)
    \/ \E f \in UIChanges(filters) : FilterChange(f)
    \/ Tick
    \/ TimerFire
    \/ \E i \in 1..MaxSaves, ok \in BOOLEAN : SaveReturn(i, ok)
    \/ \E i \in 1..MaxLoads, ok \in BOOLEAN : GetFiltersReturn(i, ok)
    \/ \E i \in 1..MaxLoads, ok \in BOOLEAN : GetFavoritesReturn(i, ok)

SpecSync == InitSync /\ [][NextSync]_vars

(***************************************************************************)
(* Favourites alone: the DSA sheet without changes of the filter controls. *)
(***************************************************************************)
InitFav ==
    /\ Init
    /\ currentResume = FALSE
    /\ user \in SyncUsers \cup {NoUser}
    /\ storeFilters = [u \in Users |-> Absent]
    /\ \A u \in Users \ SyncUsers : storeFavs[u] = {}

NextFav ==
    \/ Mount
    \/ Unmount
    \/ \E u \in SyncUsers \cup {NoUser} : SetUser(u)
    \/ \E i \in 1..MaxLoads, ok \in BOOLEAN : GetFiltersReturn(i, ok)
    \/ \E i \in 1..MaxLoads, ok \in BOOLEAN : GetFavoritesReturn(i, ok)
    \/ \E x \in Items : handleToggleFavorite(x)
    \/ \E i \in 1..MaxToggles, ok \in BOOLEAN : ToggleReturn(i, ok)

SpecFav == InitFav /\ [][NextFav]_vars

(***************************************************************************)
(* The upload component alone.                                             *)
(***************************************************************************)
InitUpload ==
    /\ Init
    /\ storeFilters = [u \in Users |-> Absent]
    /\ storeFavs = [u \in Users |-> {}]

NextUpload ==
    \/ \E u \in SyncUsers \cup {NoUser} : SetUser(u)
    \/ \E file \in DropFiles : onDrop(file)
    \/ \E i \in 1..MaxUploads : ProgressTick(i)
    \/ \E i \in 1..MaxUploads, ok \in BOOLEAN : UploadReturn(i, ok)
    \/ ResetFire
    \/ onRemove

SpecUpload == InitUpload /\ [][NextUpload]_vars

(***************************************************************************)
(* Properties of the preference sync (SpecSync)                            *)
(***************************************************************************)

\* C1: for a signed-in user on a mounted sheet, a burst of filter changes, each
\* less than the 1000 ms quiet period after the previous one, leads to exactly
\* one saveFilters call, which carries the filter state of the last change;
\* no write is issued while the burst goes on.
C1_DebouncedSave ==
    burstN > 0 =>
        /\ elapsed < DebounceMs => timer # NoTimer /\ timer.left = DebounceMs - elapsed
        /\ timer # NoTimer => burstW = <<>>
        /\ timer = NoTimer => burstW = <<filters>>

C1_Witness ==
    /\ burstN >= 3
    /\ timer = NoTimer
    /\ burstW = <<filters>>
    /\ filters # DefaultFilter

IsMountStep == ~mounted /\ mounted'

GetFiltersStage(ls) == SelectSeq(ls, LAMBDA r : r.stage = "getFilters")

\* C8: mounting with a signed-in user issues exactly one getFilters read (and
\* none is issued later while the user stays the same); when the read of a
\* live load returns a stored filter the filter state becomes that filter, when
\* it returns an absent value the filter state is left as it is, which is the
\* default filter if the user has not interacted.
C8_SeedOnMount ==
    [][ /\ IsMountStep /\ user # NoUser =>
              /\ loads' = Append(loads, [uid |-> user, stage |-> "getFilters",
                                          live |-> TRUE])
              /\ filters' = DefaultFilter
        /\ mounted /\ mounted' /\ user' = user =>
              Len(GetFiltersStage(loads')) <= Len(GetFiltersStage(loads))
        /\ \A i \in 1..Len(loads) :
              ( /\ loads[i].stage = "getFilters"
                /\ loads[i].live
                /\ loads' = [loads EXCEPT ![i].stage = "getFavorites"] ) =>
              filters' = IF storeFilters[loads[i].uid] = Absent
                           THEN filters
                           ELSE storeFilters[loads[i].uid][1]
      ]_vars

\* a mount-time load has been answered with a stored filter, which now is the
\* filter state, and its getFavorites call is pending
C8_Witness ==
    /\ mounted
    /\ Len(loads) = 1
    /\ loads[1].stage = "getFavorites"
    /\ loads[1].live
    /\ storeFilters[loads[1].uid] = Stored(StoredSample)
    /\ filters = StoredSample

\* C9: with all collaborator calls succeeding, the filter state seeded by a
\* new mount equals the filter state the user had on leaving the page.
C9_PersistAcrossSessions ==
    [][ \A i \in 1..Len(loads) :
          ( /\ clean
            /\ left # <<>>
            /\ loads[i].stage = "getFilters"
            /\ loads[i].live
            /\ loads' = [loads EXCEPT ![i].stage = "getFavorites"] ) =>
          filters' = left[1]
      ]_vars

\* C10: a filter change leaves the saveFilters calls in flight alone; a write
\* is issued only by the expired debounce timer, is queued behind the earlier
\* ones and carries the filter state that has just settled; and when every
\* write has been applied in issue order, the stored value is the filter state
\* of the last write.
C10_WritesInOrder ==
    /\ [][ /\ filters' # filters => saves' = saves
           /\ Len(saves') > Len(saves) =>
                /\ timer.left = 0
                /\ elapsed = DebounceMs
                /\ saves' = Append(saves, [uid |-> user, f |-> filters])
                /\ filters' = filters
         ]_vars
    /\ []( ( /\ clean
             /\ mounted
             /\ user # NoUser
             /\ timer = NoTimer
             /\ saves = <<>> ) => storeFilters[user] = Stored(filters) )

\* the write of a burst that ended in the default filter has been applied in
\* order: the store holds the default filter, which no earlier session left
C10_Witness ==
    /\ clean
    /\ mounted
    /\ user # NoUser
    /\ timer = NoTimer
    /\ saves = <<>>
    /\ burstN >= 2
    /\ filters = DefaultFilter
    /\ storeFilters[user] = Stored(DefaultFilter)

(***************************************************************************)
(* Properties of the favourites toggle (SpecFav)                           *)
(***************************************************************************)

\* C2: two invocations of handleToggleFavorite(x) by a signed-in user, whose
\* calls all succeed, leave the local favourites equal to the favourites
\* before the first one, as a set and without duplicates, whether or not the
\* second invocation waits for the first call to complete.
C2_ToggleTwice ==
    (pair.n = 2 /\ toggles = <<>> /\ clean) =>
        /\ Range(favorites) = Range(pair.base)
        /\ NoDup(favorites)

IssuedToggle(x) ==
    /\ Len(toggles') = Len(toggles) + 1
    /\ toggles'[Len(toggles')].item = x

\* C3 as claimed: the step of handleToggleFavorite(x) that issues the add or
\* remove call has already flipped the membership of x in the local list.
C3_Optimistic ==
    [][ \A x \in Items :
          IssuedToggle(x) => (Includes(favorites', x) <=> ~Includes(favorites, x))
      ]_vars

\* C3 as amended: the step that issues the call leaves the local list as it
\* is; the list changes when the call of a live toggle has succeeded (add
\* appends the item, remove filters it out) and stays unchanged when the call
\* has failed.
C3_UpdateAfterCall ==
    [][ /\ \A x \in Items : IssuedToggle(x) => favorites' = favorites
        /\ \A i \in 1..Len(toggles) :
             (toggles' = RemoveAt(toggles, i) /\ toggles[i].live) =>
                /\ toast' = "Added to favorites" =>
                      favorites' = Append(favorites, toggles[i].item)
                /\ toast' = "Removed from favorites" =>
                      favorites' = FilterOut(favorites, toggles[i].item)
                /\ toast' = "Error updating favorites" => favorites' = favorites
      ]_vars

\* an add call is in flight and the local list does not hold the item yet
C3_Witness ==
    /\ mounted
    /\ Len(toggles) = 1
    /\ toggles[1].live
    /\ toggles[1].op = "add"
    /\ ~Includes(favorites, toggles[1].item)
    /\ toggles[1].item \notin storeFavs[toggles[1].uid]

(***************************************************************************)
(* Properties of the upload validation (SpecUpload)                        *)
(***************************************************************************)
Invalid(file) == file.type \notin validTypes \/ file.size > MaxFileSize

Started(file) == \E i \in 1..Len(uploads) : uploads[i].pending /\ uploads[i].file = file

\* C4: uploadResume is invoked only by onDrop and only for the dropped file,
\* whose type is in the allow-list and whose size is at most 5 MiB; a drop of
\* any other file leaves currentFile, isProcessing, uploadProgress and the
\* calls in flight as they are.
C4_RejectBeforeCall ==
    [][ /\ Len(uploads') > Len(uploads) =>
              /\ uploads' = Append(uploads, [file |-> dropped', pending |-> TRUE,
                                             ticking |-> TRUE])
              /\ ~Invalid(dropped')
        /\ (dropped' # NoFile /\ Invalid(dropped')) =>
              UNCHANGED <<currentFile, isProcessing, uploadProgress, uploads>>
      ]_vars

\* an oversized document was dropped while an upload is pending
C4_Witness ==
    /\ dropped # NoFile
    /\ dropped.type \in validTypes
    /\ dropped.size > MaxFileSize
    /\ isProcessing
    /\ uploads # <<>>
    /\ currentFile # dropped

\* C5 as claimed: every dropped file of a type outside the allow-list gets the
\* "Invalid file type" notification.
C5_InvalidTypeAlwaysNotified ==
    (dropped # NoFile /\ dropped.type \notin validTypes) => toast = "Invalid file type"

\* C5 as amended: with a user signed in, every file handed to onDrop whose
\* type is outside the allow-list gets the "Invalid file type" notification,
\* whatever its size, and no upload is started for it.
C5_InvalidTypeNotified ==
    (dropped # NoFile /\ dropped.type \notin validTypes /\ user # NoUser) =>
        /\ toast = "Invalid file type"
        /\ ~Started(dropped)

C5_Witness ==
    /\ dropped.type = "image/png"
    /\ dropped.size = SixMiB
    /\ user # NoUser
    /\ toast = "Invalid file type"

\* C6 as claimed: every dropped file above 5 MiB gets a notification and no
\* upload is started for it.
C6_TooLargeAlwaysNotified ==
    (dropped # NoFile /\ dropped.size > MaxFileSize) =>
        /\ toast \in {"Invalid file type", "File too large"}
        /\ ~Started(dropped)

\* C6 as amended: with a user signed in, every file handed to onDrop that is
\* larger than 5 MiB gets a notification ("File too large" if its type is in
\* the allow-list, "Invalid file type" otherwise) and no upload is started.
C6_TooLargeNotified ==
    (dropped # NoFile /\ dropped.size > MaxFileSize /\ user # NoUser) =>
        /\ toast = IF dropped.type \in validTypes THEN "File too large"
                                                  ELSE "Invalid file type"
        /\ ~Started(dropped)

C6_Witness ==
    /\ dropped.type = "application/pdf"
    /\ dropped.size = SixMiB
    /\ user # NoUser
    /\ toast = "File too large"

(***************************************************************************)
(* Every collaborator call of one signed-in session: the sheet is opened,  *)
(* the debounced write of the seeded filter goes out, favourites are       *)
(* toggled and a document is uploaded; each call may fail.                 *)
(***************************************************************************)
GoodFile == [type |-> "application/pdf", size |-> MaxFileSize]

InitCalls ==
    /\ Init
    /\ user \in SyncUsers
    /\ currentResume = FALSE
    /\ storeFilters = [u \in Users |-> Absent]
    /\ \A u \in Users \ SyncUsers : storeFavs[u] = {}

NextCalls ==
    \/ Mount
    \/ Tick
    \/ TimerFire
    \/ \E i \in 1..MaxSaves, ok \in BOOLEAN : SaveReturn(i, ok)
    \/ \E i \in 1..MaxLoads, ok \in BOOLEAN : GetFiltersReturn(i, ok)
    \/ \E i \in 1..MaxLoads, ok \in BOOLEAN : GetFavoritesReturn(i, ok)
    \/ handleToggleFavorite("a")
    \/ \E i \in 1..MaxToggles, ok \in BOOLEAN : ToggleReturn(i, ok)
    \/ onDrop(GoodFile)
    \/ \E i \in 1..MaxUploads, ok \in BOOLEAN : UploadReturn(i, ok)

SpecCalls == InitCalls /\ [][NextCalls]_vars

Calls == {"getFilters", "getFavorites", "saveFilters", "addToFavorites",
          "removeFromFavorites", "uploadResume"}

\* C7 as claimed: the failure of any collaborator call is shown to the user as
\* a notification.
C7_EveryFailureNotified == failed # "none" => toast # "none"

\* C7 as amended: every failure is handled by the catch block of its call
\* site; a failed addToFavorites, removeFromFavorites or uploadResume shows a
\* notification, a failed getFilters, getFavorites or saveFilters only writes
\* a console.error line and shows nothing.
C7_FailuresCaught ==
    /\ failed \in Calls \cup {"none"}
    /\ failed \in {"getFilters", "getFavorites"} =>
          toast = "none" /\ logged = "Error loading user preferences:"
    /\ failed = "saveFilters" =>
          toast = "none" /\ logged = "Error saving filters:"
    /\ failed \in {"addToFavorites", "removeFromFavorites"} =>
          toast = "Error updating favorites"
    /\ failed = "uploadResume" =>
          toast = "Processing failed" /\ logged = "Upload failed:"

\* a removeFromFavorites call has failed after an earlier failure
C7_Witness ==
    /\ failed = "removeFromFavorites"
    /\ toast = "Error updating favorites"
    /\ mounted
    /\ favorites # <<>>

(***************************************************************************)
(* Feedback of an accepted upload (SpecUpload)                             *)
(***************************************************************************)

\* C11: the settling of an accepted upload shows one notification, the success
\* toast if uploadResume resolved and the failure toast if it rejected, and
\* while the call is pending the progress indicator is on: isProcessing is
\* true, and uploadProgress is above 0 once the interval has run (at the
\* latest when it has stopped itself at 90).
C11_FeedbackAndProgress ==
    /\ failed = "uploadResume" => toast = "Processing failed"
    /\ toast = "Resume processed successfully" => failed = "none"
    /\ \A i \in 1..Len(uploads) :
          uploads[i].pending =>
             /\ isProcessing
             /\ ~uploads[i].ticking => uploadProgress > 0

(***************************************************************************)
(* The filtered view alone: a mounted sheet without a signed-in user, any  *)
(* catalog, any selection in the filter controls, any search string.       *)
(***************************************************************************)
ViewFilters ==
    [difficulty : {<<>>, <<"Easy">>, <<"Hard">>, <<"Hard", "Easy">>},
     category : {<<>>, <<"outside">>},
     companies : {<<>>, <<"x">>}]

InitView ==
    /\ mounted = TRUE
    /\ user = NoUser
    /\ filters \in ViewFilters
    /\ favorites = <<>>
    /\ timer = NoTimer
    /\ loads = <<>>
    /\ saves = <<>>
    /\ toggles = <<>>
    /\ storeFilters = [u \in Users |-> Absent]
    /\ storeFavs = [u \in Users |-> {}]
    /\ toast = "none"
    /\ logged = "none"
    /\ failed = "none"
    /\ dropped = NoFile
    /\ elapsed = DebounceMs
    /\ burstN = 0
    /\ burstW = <<>>
    /\ clean = TRUE
    /\ left = <<>>
    /\ pair = NoPair
    /\ currentFile = NoFile
    /\ isProcessing = FALSE
    /\ uploadProgress = 0
    /\ currentResume = FALSE
    /\ uploads = <<>>
    /\ resetTimers = 0
    /\ catalog \in Catalogs
    /\ searchQuery \in Queries
    /\ toggled = "none"
    /\ touched = (filters # DefaultFilter)
    /\ routeFilters = [difficulty |-> <<>>]
    /\ showFavoritesOnly = FALSE
    /\ handler = "none"

NextView ==
    \/ \E f \in UIChanges(filters) : FilterChange(f)
    \/ \E q \in Queries : setSearchQuery(q)

SpecView == InitView /\ [][NextView]_vars

(***************************************************************************)
(* Filter derivation (SpecView)                                            *)
(***************************************************************************)
CasePairs == {{"A", "a"}, {"B", "b"}}

SameLetter(c, d) == c = d \/ {c, d} \in CasePairs

\* q occurs in the title at some offset, letter by letter up to case
ContainsIgnoringCase(title, q) ==
    \E k \in 0..(Len(title) - Len(q)) :
        \A j \in 1..Len(q) : SameLetter(title[k + j], q[j])

\* The predicate of the claim, with the filter fields read as sets
Selected(entry) ==
    /\ Range(filters.difficulty) = {} \/ entry.difficulty \in Range(filters.difficulty)
    /\ Range(filters.category) = {} \/ entry.category \in Range(filters.category)
    /\ Range(filters.companies) = {} \/ entry.id \in Range(filters.companies)
    /\ searchQuery = <<>> \/ ContainsIgnoringCase(entry.title, searchQuery)

\* C12: the derived view is exactly the sub-sequence of the catalog, in
\* catalog order, of the entries whose difficulty, category and id are in the
\* respective non-empty filter sets and whose title contains the non-empty
\* search string case-insensitively.
C12_ViewIsMatchingSubsequence ==
    \E idx \in [1..Len(filteredTopics) -> 1..Len(catalog)] :
        /\ \A i, j \in 1..Len(filteredTopics) : i < j => idx[i] < idx[j]
        /\ \A i \in 1..Len(filteredTopics) : filteredTopics[i] = catalog[idx[i]]
        /\ {idx[i] : i \in 1..Len(filteredTopics)}
              = {k \in 1..Len(catalog) : Selected(catalog[k])}

\* After a change of the controls, a view that keeps one entry and drops
\* another, with a search string whose case differs from the title's
C12_Witness ==
    /\ timer.left = DebounceMs
    /\ Len(catalog) = MaxCatalog
    /\ Len(filteredTopics) = 1
    /\ searchQuery = <<"B">>
    /\ filters.difficulty # <<>>
    /\ \E k \in 1..Len(catalog) :
          /\ ~Includes(filters.difficulty, catalog[k].difficulty)
          /\ Includes(toLowerCase(catalog[k].title), "b")

\* C13: filtering is idempotent: filtering the filtered view again with the
\* same filter and search string yields the same view.
C13_Idempotent ==
    filterEntries(filteredTopics, filters, searchQuery) = filteredTopics

\* After a change of the controls, a view that is neither empty nor the whole
\* catalog
C13_Witness ==
    /\ timer.left = DebounceMs
    /\ toast = "none"
    /\ Len(catalog) = MaxCatalog
    /\ Len(filteredTopics) > 0
    /\ Len(filteredTopics) < Len(catalog)
    /\ hasActiveFilters(filters)

\* C14: with the all-empty filter and an empty search string the filtered view
\* is the full catalog; this is the view once clearAllFilters has produced the
\* filter.
C14_EmptyFilterShowsAll ==
    /\ (hasActiveFilters(filters) = FALSE /\ searchQuery = <<>>) =>
           filteredTopics = catalog
    /\ searchQuery = <<>> =>
           filterEntries(catalog, clearAllFilters(filters), searchQuery) = catalog

\* The controls have just produced the all-empty filter over a full catalog
C14_Witness ==
    /\ filters = clearAllFilters(filters)
    /\ searchQuery = <<>>
    /\ timer.left = DebounceMs
    /\ touched
    /\ Len(catalog) = MaxCatalog
    /\ filteredTopics = catalog

(***************************************************************************)
(* Favourites: failed toggles, agreement with the store (SpecFav)          *)
(***************************************************************************)

\* C15: when the add or remove call of a toggle fails, the notification
\* 'Error updating favorites' is shown and the step leaves the local
\* favourites, and the store, exactly as they were.
C15_FailedToggleChangesNothing ==
    [][failed' \in {"addToFavorites", "removeFromFavorites"} =>
          /\ toast' = "Error updating favorites"
          /\ favorites' = favorites
          /\ storeFavs' = storeFavs]_vars

\* A remove call has failed; the item is still in the list and in the store
C15_Witness ==
    /\ mounted
    /\ failed = "removeFromFavorites"
    /\ toast = "Error updating favorites"
    /\ favorites = <<"a">>
    /\ user # NoUser
    /\ storeFavs[user] = {"a"}

\* C16: whenever no collaborator call is in flight and the sheet is mounted for
\* a signed-in user (so that its load has been started), the local favourites,
\* read as a set, are the favourites the store holds for that user.
C16_LocalMatchesStore ==
    (mounted /\ user # NoUser /\ loads = <<>> /\ toggles = <<>>) =>
        Range(favorites) = storeFavs[user]

\* C19: the local favourites list holds each item id at most once in every
\* reachable state (getFavorites returns a duplicate-free list).
C19_NoDuplicateFavorites == NoDup(favorites)

\* C20: with no user signed in, handleToggleFavorite shows 'Please sign in to
\* add favorites', issues no add or remove call and leaves the local
\* favourites and the store unchanged.
C20_SignedOutToggleRefused ==
    [][(toggled' # "none" /\ user = NoUser) =>
          /\ toast' = "Please sign in to add favorites"
          /\ toggles' = toggles
          /\ favorites' = favorites
          /\ storeFavs' = storeFavs]_vars

\* A signed-out visitor has just clicked a star
C20_Witness ==
    /\ mounted
    /\ user = NoUser
    /\ toggled = "a"
    /\ toast = "Please sign in to add favorites"
    /\ toggles = <<>>

(***************************************************************************)
(* Preference sync: what the writes carry, the load against the user       *)
(* (SpecSync)                                                              *)
(***************************************************************************)

\* C17: a saveFilters(u, F) write whose filter was neither loaded from u's
\* stored preferences nor produced by a filter change under u (no change of
\* the filter state since the mount or the last change of the user id) never
\* replaces a different stored filter: mounting the page, a slow or failed
\* load or a change of the user id alone overwrite nothing.
C17_WritesCarryOwnFilter ==
    [][(Len(saves') > Len(saves) /\ burstN = 0) =>
          LET w == saves'[Len(saves')]
          IN  storeFilters[w.uid] \in {Absent, Stored(w.f)}]_vars

\* C18: once the user has changed the filter controls after the mount, the
\* result of a getFilters read does not replace the filter state.
C18_UserChangeSurvivesLoad ==
    [][(touched /\ mounted' /\ loads' # loads) => filters' = filters]_vars

(***************************************************************************)
(* Calls and the signed-in user (SpecSync)                                 *)
(***************************************************************************)
\* The step issues a collaborator call: a getFilters or getFavorites of a
\* load, a saveFilters, an add/removeFromFavorites or an uploadResume.
IssuesCall ==
    \/ Len(loads') > Len(loads)
    \/ \E i \in 1..Len(loads) :
          /\ Len(loads') = Len(loads)
          /\ loads[i].stage = "getFilters"
          /\ loads'[i].stage = "getFavorites"
    \/ Len(saves') > Len(saves)
    \/ Len(toggles') > Len(toggles)
    \/ Len(uploads') > Len(uploads)

\* C21: while no user is signed in (before and after the step), no step
\* issues a collaborator call.
C21_NoCallsSignedOut ==
    [][(user = NoUser /\ user' = NoUser) => ~IssuesCall]_vars

(***************************************************************************)
(* The load alone: the sheet with its load and the filter controls,        *)
(* without the passing of time; filters and favourites are both stored.    *)
(***************************************************************************)
InitLoad ==
    /\ Init
    /\ currentResume = FALSE
    /\ user \in SyncUsers \cup {NoUser}
    /\ \A u \in Users \ SyncUsers : storeFilters[u] = Absent /\ storeFavs[u] = {}

NextLoad ==
    \/ Mount
    \/ Unmount
    \/ \E u \in SyncUsers \cup {NoUser} : SetUser(u)
    \/ \E f \in UIChanges(filters) : FilterChange(f)
    \/ \E i \in 1..MaxLoads, ok \in BOOLEAN : GetFiltersReturn(i, ok)
    \/ \E i \in 1..MaxLoads, ok \in BOOLEAN : GetFavoritesReturn(i, ok)

SpecLoad == InitLoad /\ [][NextLoad]_vars

\* The step issues the getFavorites call of a load: one more load awaits it
AwaitingFavorites(ls) == {i \in 1..Len(ls) : ls[i].stage = "getFavorites"}

IssuesGetFavorites ==
    Cardinality(AwaitingFavorites(loads')) > Cardinality(AwaitingFavorites(loads))

\* The step is the successful completion of the getFilters call of a load
GetFiltersSucceeded ==
    /\ failed' = "none"
    /\ \E i \in 1..Len(loads) :
          /\ loads[i].stage = "getFilters"
          /\ loads' = [loads EXCEPT ![i].stage = "getFavorites"]

\* C22: a load issues getFavorites only in the step in which its getFilters
\* call completes successfully; a failed getFilters ends the load without a
\* getFavorites call and leaves the local favourites as they were; a failed
\* getFavorites leaves the filter state (seeded or not) and the favourites as
\* they were.
C22_LoadOrder ==
    [][/\ IssuesGetFavorites => GetFiltersSucceeded
       /\ failed' = "getFilters" =>
             /\ Len(loads') = Len(loads) - 1
             /\ \A i \in 1..Len(loads') : loads'[i] \in Range(loads)
             /\ favorites' = favorites
       /\ failed' = "getFavorites" =>
             /\ filters' = filters
             /\ favorites' = favorites]_vars

\* getFilters of a later load has failed; the favourites of the earlier load
\* are still shown and no load is left
C22_Witness ==
    /\ mounted
    /\ failed = "getFilters"
    /\ logged = "Error loading user preferences:"
    /\ favorites = <<"a">>
    /\ loads = <<>>

(***************************************************************************)
(* The upload state (SpecUpload)                                           *)
(***************************************************************************)

\* C23: a drop of a file starts an upload if and only if a user is signed in,
\* the file's type is in the allow-list and its size is at most 5 MiB; the
\* accepted drop sets currentFile to the file, isProcessing to true and
\* uploadProgress to 0 and issues exactly one uploadResume call, with that
\* file.
C23_UploadStartsIff ==
    [][dropped' # NoFile =>
          /\ (Len(uploads') > Len(uploads)) <=>
                (/\ user # NoUser
                 /\ dropped'.type \in validTypes
                 /\ dropped'.size <= 5 * 1024 * 1024)
          /\ Len(uploads') > Len(uploads) =>
                /\ currentFile' = dropped'
                /\ isProcessing'
                /\ uploadProgress' = 0
                /\ Len(uploads') = Len(uploads) + 1
                /\ SubSeq(uploads', 1, Len(uploads)) = uploads
                /\ uploads'[Len(uploads')].file = dropped'
                /\ uploads'[Len(uploads')].pending]_vars

\* A Word document of exactly 5 MiB has just been accepted as the only upload
C23_Witness ==
    /\ dropped.type = "application/msword"
    /\ dropped.size = 5 * 1024 * 1024
    /\ currentFile = dropped
    /\ isProcessing
    /\ uploadProgress = 0
    /\ Len(uploads) = 1
    /\ uploads[1].file = dropped
    /\ uploads[1].pending

\* An uploadResume call is in flight
UploadPending == \E i \in 1..Len(uploads) : uploads[i].pending

\* C24: uploadProgress is always one of 0, 15, 30, 45, 60, 75, 90, 100; it is
\* at most 90 while an uploadResume call is pending; it is 100 only after a
\* call has resolved successfully (the 2000 ms reset of that success is then
\* still to come).
C24_ProgressValues ==
    /\ uploadProgress \in {0, 15, 30, 45, 60, 75, 90, 100}
    /\ UploadPending => uploadProgress <= 90
    /\ uploadProgress = 100 => (currentResume /\ resetTimers > 0)

\* C25: the failure of an uploadResume call resets the upload state
\* (uploadProgress 0, currentFile null, isProcessing false), and while no call
\* is in flight and no file is accepted uploadProgress stays 0.
C25_FailedUploadStaysReset ==
    [][/\ failed' = "uploadResume" =>
             (uploadProgress' = 0 /\ currentFile' = NoFile /\ ~isProcessing')
       /\ (uploadProgress = 0 /\ ~UploadPending /\ Len(uploads') <= Len(uploads)) =>
             uploadProgress' = 0]_vars

\* C26: isProcessing is true in every state in which an uploadResume call is
\* in flight.
C26_ProcessingWhilePending == UploadPending => isProcessing

(***************************************************************************)
(* The filter controls alone: DSAFilters inside a sheet whose load has     *)
(* finished for user u1 with one favourite, and RouteFilters.              *)
(***************************************************************************)
InitControls ==
    /\ mounted = TRUE
    /\ user = "u1"
    /\ filters = DefaultFilter
    /\ favorites = <<"a">>
    /\ timer = NoTimer
    /\ loads = <<>>
    /\ saves = <<>>
    /\ toggles = <<>>
    /\ storeFilters = [u \in Users |-> IF u = "u1" THEN Stored(DefaultFilter) ELSE Absent]
    /\ storeFavs = [u \in Users |-> IF u = "u1" THEN {"a"} ELSE {}]
    /\ toast = "none"
    /\ logged = "none"
    /\ failed = "none"
    /\ dropped = NoFile
    /\ elapsed = DebounceMs
    /\ burstN = 0
    /\ burstW = <<>>
    /\ clean = TRUE
    /\ left = <<>>
    /\ pair = NoPair
    /\ currentFile = NoFile
    /\ isProcessing = FALSE
    /\ uploadProgress = 0
    /\ currentResume = FALSE
    /\ uploads = <<>>
    /\ resetTimers = 0
    /\ catalog = SampleCatalog
    /\ searchQuery \in Queries
    /\ toggled = "none"
    /\ touched = FALSE
    /\ routeFilters = [difficulty |-> <<>>]
    /\ showFavoritesOnly = FALSE
    /\ handler = "none"

NextControls ==
    \/ \E d \in ControlDifficulties, checked \in BOOLEAN : DifficultyChange(d, checked)
    \/ \E c \in ControlCategories, checked \in BOOLEAN : CategoryChange(c, checked)
    \/ \E c \in AvailableCompanies, checked \in BOOLEAN : CompanyChange(c, checked)
    \/ ClearAll
    \/ \E d \in ControlDifficulties, checked \in BOOLEAN :
          RouteDifficultyChange(d, checked)
    \/ \E show \in BOOLEAN : onShowFavoritesChange(show)
    \/ RouteClearAll
    \/ \E q \in Queries : setSearchQuery(q)

SpecControls == InitControls /\ [][NextControls]_vars

(***************************************************************************)
(* The filter handlers (SpecControls)                                      *)
(***************************************************************************)
\* The step leaves the favourites and the search string as they are
KeepsFavoritesAndSearch == favorites' = favorites /\ searchQuery' = searchQuery

\* C27: each filter handler changes only its own dimension, and none of them
\* changes the favourites or the search string; the difficulty handler of
\* RouteFilters leaves showFavoritesOnly as it is.
C27_HandlersChangeOwnDimension ==
    [][/\ handler' = "handleDifficultyChange" =>
             /\ filters'.category = filters.category
             /\ filters'.companies = filters.companies
             /\ KeepsFavoritesAndSearch
       /\ handler' = "handleCategoryChange" =>
             /\ filters'.difficulty = filters.difficulty
             /\ filters'.companies = filters.companies
             /\ KeepsFavoritesAndSearch
       /\ handler' = "handleCompanyChange" =>
             /\ filters'.difficulty = filters.difficulty
             /\ filters'.category = filters.category
             /\ KeepsFavoritesAndSearch
       /\ handler' = "RouteFilters.handleDifficultyChange" =>
             /\ showFavoritesOnly' = showFavoritesOnly
             /\ DOMAIN routeFilters' = {"difficulty"}
             /\ KeepsFavoritesAndSearch]_vars

\* A category was just changed while the other two dimensions, the favourites
\* and the search string were not empty
C27_Witness ==
    /\ handler = "handleCategoryChange"
    /\ filters.difficulty # <<>>
    /\ filters.companies # <<>>
    /\ favorites = <<"a">>
    /\ searchQuery # <<>>

\* The filter with every selection listed twice
Doubled(f) ==
    [difficulty |-> f.difficulty \o f.difficulty,
     category |-> f.category \o f.category,
     companies |-> f.companies \o f.companies]

\* check/uncheck of value v in a list: before, after checking, after unchecking,
\* after checking and then unchecking
CheckLaws(before, checkedList, uncheckedList, both, v) ==
    /\ Includes(checkedList, v)
    /\ \A w \in Range(before) : Includes(checkedList, w)
    /\ ~Includes(uncheckedList, v)
    /\ Range(uncheckedList) = Range(before) \ {v}
    /\ ~Includes(before, v) => (both = before /\ uncheckedList = before)

\* C28: for the current filter, also with its selections doubled, and every
\* value v of a dimension: checking v adds v, unchecking v removes every
\* occurrence, check-then-uncheck of an absent v and the uncheck of an absent v
\* give the filter back; no dimension of the filter state ever holds a value
\* twice; and each step of a handler is a check of an absent value (appended)
\* or an uncheck of a present one.
C28_CheckUncheck ==
    /\ [](/\ \A f \in {filters, Doubled(filters)} :
                /\ \A v \in ControlDifficulties :
                      CheckLaws(f.difficulty,
                                handleDifficultyChange(f, v, TRUE).difficulty,
                                handleDifficultyChange(f, v, FALSE).difficulty,
                                handleDifficultyChange(
                                    handleDifficultyChange(f, v, TRUE), v, FALSE).difficulty,
                                v)
                /\ \A v \in ControlCategories :
                      CheckLaws(f.category,
                                handleCategoryChange(f, v, TRUE).category,
                                handleCategoryChange(f, v, FALSE).category,
                                handleCategoryChange(
                                    handleCategoryChange(f, v, TRUE), v, FALSE).category,
                                v)
                /\ \A v \in AvailableCompanies :
                      CheckLaws(f.companies,
                                handleCompanyChange(f, v, TRUE).companies,
                                handleCompanyChange(f, v, FALSE).companies,
                                handleCompanyChange(
                                    handleCompanyChange(f, v, TRUE), v, FALSE).companies,
                                v)
          /\ NoDup(filters.difficulty)
          /\ NoDup(filters.category)
          /\ NoDup(filters.companies)
          /\ NoDup(routeFilters.difficulty))
    /\ [][/\ handler' = "handleDifficultyChange" =>
                \E v \in ControlDifficulties :
                   \/ ~Includes(filters.difficulty, v)
                        /\ filters'.difficulty = Append(filters.difficulty, v)
                   \/ Includes(filters.difficulty, v)
                        /\ filters'.difficulty = FilterOut(filters.difficulty, v)
                        /\ ~Includes(filters'.difficulty, v)
          /\ handler' = "handleCategoryChange" =>
                \E v \in ControlCategories :
                   \/ ~Includes(filters.category, v)
                        /\ filters'.category = Append(filters.category, v)
                   \/ Includes(filters.category, v)
                        /\ filters'.category = FilterOut(filters.category, v)
                        /\ ~Includes(filters'.category, v)
          /\ handler' = "handleCompanyChange" =>
                \E v \in AvailableCompanies :
                   \/ ~Includes(filters.companies, v)
                        /\ filters'.companies = Append(filters.companies, v)
                   \/ Includes(filters.companies, v)
                        /\ filters'.companies = FilterOut(filters.companies, v)
                        /\ ~Includes(filters'.companies, v)]_vars

\* A difficulty was just checked or unchecked, leaving two, in a burst of
\* changes with a category set and all difficulties selected in RouteFilters
C28_Witness ==
    /\ handler = "handleDifficultyChange"
    /\ Len(filters.difficulty) = 2
    /\ filters.category # <<>>
    /\ burstN >= 2
    /\ Len(routeFilters.difficulty) = 3

\* C29: clearAllFilters of DSAFilters yields the filter with three empty
\* lists, that of RouteFilters an empty difficulty list and showFavoritesOnly
\* false; hasActiveFilters is false after either; and in both components
\* hasActiveFilters is true exactly when the badge count is greater than 0.
C29_ClearAllAndBadge ==
    /\ [](/\ hasActiveFilters(filters) <=> badgeCount(filters) > 0
          /\ RouteFilters_hasActiveFilters(routeFilters, showFavoritesOnly)
                <=> RouteFilters_badgeCount(routeFilters, showFavoritesOnly) > 0
          /\ ~hasActiveFilters(clearAllFilters(filters))
          /\ ~RouteFilters_hasActiveFilters(RouteFilters_clearAllFilters(routeFilters),
                                            FALSE))
    /\ [][/\ handler' = "clearAllFilters" =>
                /\ filters'.difficulty = <<>>
                /\ filters'.category = <<>>
                /\ filters'.companies = <<>>
                /\ ~hasActiveFilters(filters')
          /\ handler' = "RouteFilters.clearAllFilters" =>
                /\ routeFilters'.difficulty = <<>>
                /\ showFavoritesOnly' = FALSE
                /\ ~RouteFilters_hasActiveFilters(routeFilters', showFavoritesOnly')
         ]_vars

\* Clear All of DSAFilters was just clicked while RouteFilters has a selection
\* and shows favourites only
C29_Witness ==
    /\ handler = "clearAllFilters"
    /\ filters = DefaultFilter
    /\ badgeCount(filters) = 0
    /\ showFavoritesOnly
    /\ RouteFilters_badgeCount(routeFilters, showFavoritesOnly) = 3

====
